---- MODULE Spec2Model ----
(***************************************************************************)
(* Model of the recursive-descent front end in parser.py: the Scanner      *)
(* (maximal-munch tokenizer with one token of lookahead), the parser       *)
(* procedures (one per grammar rule, run here with an explicit call        *)
(* stack), the AST classes with their renderings, and the module-level     *)
(* driver.                                                                 *)
(*                                                                         *)
(* A Python str is a sequence of one-character strings; Python's None is   *)
(* the value None below, which is no such sequence.  An AST object is a    *)
(* record [tag, text, kids] whose tag is the name of its class.            *)
(***************************************************************************)
EXTENDS Integers, Sequences, FiniteSets, TLC

VARIABLES
    input_string,        \* Scanner.input_string: the whole source text
    current_char_index,  \* Scanner.current_char_index: characters consumed
    current_token,       \* Scanner.current_token: <<token, matched text>>
    stack,               \* call stack of the parser procedures in progress
    ret,                 \* value returned by the procedure that returned last
    pc,                  \* position of the module-level code of parser.py
    outcome,             \* "running", or how the run ended
    stdout,              \* what has been printed, one record per print call
    tokens,              \* history: every pair get_token has returned
    last_consume,        \* history: the last call of consume
    first,               \* the run before the rerun on a re-spaced input
    run                  \* 1 for the first run, 2 for the rerun

vars == <<input_string, current_char_index, current_token, stack, ret, pc,
          outcome, stdout, tokens, last_consume, first, run>>

(***************************************************************************)
(* Characters.                                                             *)
(***************************************************************************)
Lower == {"a","b","c","d","e","f","g","h","i","j","k","l","m",
          "n","o","p","q","r","s","t","u","v","w","x","y","z"}

Digit == {"0","1","2","3","4","5","6","7","8","9"}

\* str.isspace() for the characters of the inputs considered here
\* isspace taking the blank for the only white space
isspace_blank(c) == c = " "

isspace(c) == c \in {" ", "\t", "\n", "\r"}

None == <<"None">>

(***************************************************************************)
(* class Token: the token kinds and the table of their patterns.           *)
(***************************************************************************)
Token_DO    == <<"D","O">>
Token_ELSE  == <<"E","L","S","E">>
Token_END   == <<"E","N","D">>
Token_IF    == <<"I","F">>
Token_THEN  == <<"T","H","E","N">>
Token_WHILE == <<"W","H","I","L","E">>
Token_READ  == <<"R","E","A","D">>
Token_WRITE == <<"W","R","I","T","E">>
Token_SEM   == <<"S","E","M">>
Token_BEC   == <<"B","E","C">>
Token_LESS  == <<"L","E","S","S">>
Token_EQ    == <<"E","Q">>
Token_GRTR  == <<"G","R","T","R">>
Token_LEQ   == <<"L","E","Q">>
Token_NEQ   == <<"N","E","Q">>
Token_GEQ   == <<"G","E","Q">>
Token_ADD   == <<"A","D","D">>
Token_SUB   == <<"S","U","B">>
Token_MUL   == <<"M","U","L">>
Token_DIV   == <<"D","I","V">>
Token_LPAR  == <<"L","P","A","R">>
Token_RPAR  == <<"R","P","A","R">>
Token_NUM   == <<"N","U","M">>
Token_ID    == <<"I","D">>

\* A pattern of the table is either a literal text (cls empty) or one or
\* more characters of a class (lit empty).
Literal(text) == [lit |-> text, cls |-> {}]

OneOrMore(class) == [lit |-> <<>>, cls |-> class]

token_regexp == <<
    <<Token_DO,    Literal(<<"d","o">>)>>,
    <<Token_ELSE,  Literal(<<"e","l","s","e">>)>>,
    <<Token_END,   Literal(<<"e","n","d">>)>>,
    <<Token_IF,    Literal(<<"i","f">>)>>,
    <<Token_THEN,  Literal(<<"t","h","e","n">>)>>,
    <<Token_WHILE, Literal(<<"w","h","i","l","e">>)>>,
    <<Token_READ,  Literal(<<"r","e","a","d">>)>>,
    <<Token_WRITE, Literal(<<"w","r","i","t","e">>)>>,
    <<Token_SEM,   Literal(<<";">>)>>,
    <<Token_BEC,   Literal(<<":","=">>)>>,
    <<Token_LESS,  Literal(<<"<">>)>>,
    <<Token_EQ,    Literal(<<"=">>)>>,
    <<Token_GRTR,  Literal(<<">">>)>>,
    <<Token_LEQ,   Literal(<<"<","=">>)>>,
    <<Token_NEQ,   Literal(<<"!","=">>)>>,
    <<Token_GEQ,   Literal(<<">","=">>)>>,
    <<Token_ADD,   Literal(<<"+">>)>>,
    <<Token_SUB,   Literal(<<"-">>)>>,
    <<Token_MUL,   Literal(<<"*">>)>>,
    <<Token_DIV,   Literal(<<"/">>)>>,
    <<Token_LPAR,  Literal(<<"(">>)>>,
    <<Token_RPAR,  Literal(<<")">>)>>,
    <<Token_NUM,   OneOrMore(Digit)>>,
    <<Token_ID,    OneOrMore(Lower)>> >>

(***************************************************************************)
(* class Scanner.                                                          *)
(***************************************************************************)
RECURSIVE skip_white_space(_, _)
\* the index after the white space that starts at index i of s
skip_white_space(s, i) ==
    IF i < Len(s) /\ isspace(s[i + 1])
    THEN skip_white_space(s, i + 1)
    ELSE i

RECURSIVE RunLength(_, _, _)
\* the number of characters of class cls that s holds from index i on
RunLength(cls, s, i) ==
    IF i < Len(s) /\ s[i + 1] \in cls
    THEN 1 + RunLength(cls, s, i + 1)
    ELSE 0

\* re.match(r, s[i:]): the end of the match, or -1 when there is no match
re_match(r, s, i) ==
    IF r.cls = {}
    THEN IF /\ i + Len(r.lit) <= Len(s)
            /\ \A k \in 1..Len(r.lit) : s[i + k] = r.lit[k]
         THEN Len(r.lit)
         ELSE -1
    ELSE LET n == RunLength(r.cls, s, i)
         IN  IF n > 0 THEN n ELSE -1

\* Better with >= for >: on a tie the later entry wins
Better_tie(m, longest) == m # -1 /\ m >= Len(longest)

\* one iteration of the loop of get_token: does entry k replace the match
\* found so far (longest)?
Better(m, longest) == m # -1 /\ m > Len(longest)

RECURSIVE scan_table(_, _, _, _, _)
\* the loop of get_token over the entries k.. of the table
scan_table(s, i, k, token, longest) ==
    IF k > Len(token_regexp)
    THEN <<token, longest>>
    ELSE LET m == re_match(token_regexp[k][2], s, i)
         IN  IF Better(m, longest)
             THEN scan_table(s, i, k + 1, token_regexp[k][1],
                             SubSeq(s, i + 1, i + m))
             ELSE scan_table(s, i, k + 1, token, longest)

\* NoTokenFound with the call of no_token left out
NoTokenFound_never(s, i, token, longest) == FALSE

\* get_token's test for the lexical error
NoTokenFound(s, i, token, longest) ==
    /\ token = None /\ longest = <<>>
    /\ i < Len(s) - Len(longest)

\* token_at leaving the cursor where the token starts
token_at_still(s, i, tl) ==
    [raised |-> NoTokenFound(s, i, tl[1], tl[2]), index |-> i, token |-> tl]

\* the end of get_token, with the cursor at i after the white space and
\* tl the pair <<token, longest>> its loop has found: the pair it returns
\* (token), the cursor it leaves (index), and whether it called no_token
\* (raised)
token_at(s, i, tl) ==
    IF NoTokenFound(s, i, tl[1], tl[2])
    THEN [raised |-> TRUE,  index |-> i, token |-> tl]
    ELSE [raised |-> FALSE, index |-> i + Len(tl[2]), token |-> tl]

\* get_token after its call of skip_white_space
scan_at(s, i) == token_at(s, i, scan_table(s, i, 1, None, <<>>))

\* get_token with the cursor at i0
get_token(s, i0) == scan_at(s, skip_white_space(s, i0))

\* what no_token prints
no_token(s, i) ==
    [msg  |-> "lexical error: no token found at the start of ",
     list |-> <<>>,
     text |-> SubSeq(s, i + 1, Len(s))]


\* the code point of an upper-case letter (the characters of token kinds)
ord(c) ==
    LET upper == <<"A","B","C","D","E","F","G","H","I","J","K","L","M",
                   "N","O","P","Q","R","S","T","U","V","W","X","Y","Z">>
    IN  64 + CHOOSE k \in 1..26 : upper[k] = c

RECURSIVE str_lt(_, _)
\* a < b for two str
str_lt(a, b) ==
    IF b = <<>> THEN FALSE
    ELSE IF a = <<>> THEN TRUE
    ELSE IF a[1] = b[1] THEN str_lt(Tail(a), Tail(b))
    ELSE ord(a[1]) < ord(b[1])

RECURSIVE insert_sorted(_, _)
insert_sorted(x, xs) ==
    IF xs = <<>> THEN <<x>>
    ELSE IF str_lt(x, xs[1]) THEN <<x>> \o xs
    ELSE <<xs[1]>> \o insert_sorted(x, Tail(xs))

RECURSIVE sorted(_)
\* sorted(xs) for a sequence xs of str
sorted(xs) ==
    IF xs = <<>> THEN <<>>
    ELSE insert_sorted(xs[Len(xs)], sorted(SubSeq(xs, 1, Len(xs) - 1)))

\* iterating over a str yields its characters, each a str of length one
iter_str(s) == [k \in 1..Len(s) |-> <<s[k]>>]

\* repr of a token kind or of None
repr_token(t) == IF t = None THEN <<"N","o","n","e">> ELSE <<"'">> \o t \o <<"'">>

\* what unexpected_token prints; expected_tokens is the value bound to its
\* second parameter, on which sorted iterates
unexpected_token(found_token, expected_tokens) ==
    [msg  |-> "syntax error: token in [list] expected but [text] found",
     list |-> sorted(iter_str(expected_tokens)),
     text |-> repr_token(found_token)]

\* the value consume returns for the token it consumed
consume_value(token, longest) ==
    IF token = Token_ID THEN <<token, longest>>
    ELSE IF token = Token_NUM THEN <<token, longest>>
    ELSE <<token>>

\* the arguments that the call unexpected_token(token, *expected_tokens)
\* passes fit the two parameters of unexpected_token
CallFits(expected_tokens) == Len(expected_tokens) = 1

\* the state of the scanner and the result of a call that changed nothing
Untouched ==
    [status |-> "ok", value |-> <<>>, out |-> <<>>,
     current_token |-> current_token, index |-> current_char_index]

\* token in expected_tokens
IsExpected(token, expected_tokens) ==
    \E k \in 1..Len(expected_tokens) : expected_tokens[k] = token

\* consume_expected moving the cursor but keeping the buffered token
consume_expected_stale(token, longest, g) ==
    IF g.raised
    THEN [Untouched EXCEPT !.status = "lexical_error",
                           !.index = g.index,
                           !.out = <<no_token(input_string, g.index)>>]
    ELSE [Untouched EXCEPT !.value = consume_value(token, longest),
                           !.index = g.index]

\* consume when the token is expected; g is what its call of get_token does
consume_expected(token, longest, g) ==
    IF g.raised
    THEN [Untouched EXCEPT !.status = "lexical_error",
                           !.index = g.index,
                           !.out = <<no_token(input_string, g.index)>>]
    ELSE [Untouched EXCEPT !.value = consume_value(token, longest),
                           !.current_token = g.token,
                           !.index = g.index]

\* consume_unexpected returning the token it found, with no error
consume_unexpected_returns(token, expected_tokens) ==
    [Untouched EXCEPT !.value = <<token, <<>>>>]

\* consume when the token is not expected
consume_unexpected(token, expected_tokens) ==
    IF CallFits(expected_tokens)
    THEN [Untouched EXCEPT
              !.status = "syntax_error",
              !.out = <<unexpected_token(token, expected_tokens[1])>>]
    ELSE [Untouched EXCEPT !.status = "TypeError"]

\* consume(*expected_tokens) in the current state of the scanner: how the
\* call ends (status), the value returned, the scanner it leaves and what
\* it prints.  sys.exit() in no_token and unexpected_token ends the run
\* before the enclosing raise; the call with the wrong number of arguments
\* ends it with an uncaught TypeError.
consume(expected_tokens) ==
    IF IsExpected(current_token[1], expected_tokens)
    THEN consume_expected(current_token[1], current_token[2],
                          get_token(input_string, current_char_index))
    ELSE consume_unexpected(current_token[1], expected_tokens)

\* lookahead()
lookahead == current_token[1]

(***************************************************************************)
(* The AST classes.  kids holds the attributes of the object that are AST  *)
(* objects, in the order of the constructor's parameters; text holds the   *)
(* attribute that is a str (op, number, identifier).                       *)
(***************************************************************************)
Node(tag, text, kids) == [tag |-> tag, text |-> text, kids |-> kids]

\* Python's None where an AST object is expected
NoneValue == Node("None", <<>>, <<>>)

\* a value that consume returned, where an AST object is expected
TokenValue(v) == Node("token", v[1], <<>>)

Program_AST(program) == Node("Program_AST", <<>>, <<program>>)

Statements_AST(statements) == Node("Statements_AST", <<>>, statements)

If_Else_AST(condition, then, again) ==
    Node("If_Else_AST", <<>>, <<condition, then, again>>)

If_AST(condition, then) == Node("If_AST", <<>>, <<condition, then>>)

While_AST(condition, body) == Node("While_AST", <<>>, <<condition, body>>)

Assign_AST(identifier, expression) ==
    Node("Assign_AST", <<>>, <<identifier, expression>>)

Write_AST(expression) == Node("Write_AST", <<>>, <<expression>>)

Read_AST(identifier) == Node("Read_AST", <<>>, <<identifier>>)

Comparison_AST(left, op, right) == Node("Comparison_AST", op, <<left, right>>)

Expression_AST(left, op, right) == Node("Expression_AST", op, <<left, right>>)

Number_AST(number) == Node("Number_AST", number, <<>>)

Identifier_AST(identifier) == Node("Identifier_AST", identifier, <<>>)

\* the dict operator
operator(op) ==
    CASE op = Token_LESS -> <<"<">>
      [] op = Token_EQ   -> <<"=">>
      [] op = Token_GRTR -> <<">">>
      [] op = Token_LEQ  -> <<"<","=">>
      [] op = Token_NEQ  -> <<"!","=">>
      [] op = Token_GEQ  -> <<">","=">>
      [] op = Token_ADD  -> <<"+">>
      [] op = Token_SUB  -> <<"-">>
      [] op = Token_MUL  -> <<"*">>
      [] op = Token_DIV  -> <<"/">>

\* spaces with two blanks for a level
spaces_two(level) == [k \in 1..(2 * level) |-> " "]

RECURSIVE spaces(_)
\* '    ' * level
spaces(level) ==
    IF level = 0 THEN <<>> ELSE <<" "," "," "," ">> \o spaces(level - 1)

\* indent(s, level)
indent(s, level) == spaces(level) \o s \o <<"\n">>

\* the str that the indented method of n's class passes to indent
line_of(n) ==
    CASE n.tag = "Statements_AST" -> <<"S","t","a","t","e","m","e","n","t","s">>
      [] n.tag = "If_Else_AST"    -> <<"I","f","-","E","l","s","e">>
      [] n.tag = "If_AST"         -> <<"I","f">>
      [] n.tag = "While_AST"      -> <<"W","h","i","l","e">>
      [] n.tag = "Assign_AST"     -> <<"A","s","s","i","g","n">>
      [] n.tag = "Write_AST"      -> <<"W","r","i","t","e">>
      [] n.tag = "Read_AST"       -> <<"R","e","a","d">>
      [] n.tag \in {"Comparison_AST", "Expression_AST",
                    "Number_AST", "Identifier_AST"} -> n.text

\* the objects that have no method indented: None and str
HasNoMethods(n) == n.tag \in {"None", "token"}

RECURSIVE indented_ok(_)
RECURSIVE indented_ok_each(_)
\* n.indented(level) returns: no object below n lacks the method indented
indented_ok(n) == ~HasNoMethods(n) /\ indented_ok_each(n.kids)

indented_ok_each(ns) ==
    ns = <<>> \/ (indented_ok(ns[1]) /\ indented_ok_each(Tail(ns)))

RECURSIVE indented_text(_, _)
RECURSIVE indented_each(_, _)
\* the text that n.indented(level) builds, as far as it gets
indented_text(n, level) ==
    IF HasNoMethods(n) THEN <<>>
    ELSE IF n.tag = "Program_AST" THEN indented_text(n.kids[1], level)
    ELSE indent(line_of(n), level) \o indented_each(n.kids, level + 1)

\* the renderings of the objects ns, one after the other
indented_each(ns, level) ==
    IF ns = <<>> THEN <<>>
    ELSE indented_text(ns[1], level) \o indented_each(Tail(ns), level)

\* n.indented(level): the text returned (text), or ok = FALSE when the
\* call ends in an AttributeError
indented(n, level) ==
    [ok |-> indented_ok(n), text |-> indented_text(n, level)]

\* the str literals of the __repr__ methods
Lit_if    == <<"i","f"," ">>
Lit_then  == <<" ","t","h","e","n"," ">>
Lit_else  == <<" ","e","l","s","e"," ">>
Lit_end   == <<" ","e","n","d">>
Lit_while == <<"w","h","i","l","e"," ">>
Lit_do    == <<" ","d","o"," ">>
Lit_write == <<"w","r","i","t","e"," ">>
Lit_read  == <<"r","e","a","d"," ">>

\* what If_Else_AST.__repr__ puts after the else-branch
IfElseClose == <<"e","n","d">>

RECURSIVE repr(_)
RECURSIVE repr_joined(_)
\* repr(n): the text returned (text), or ok = FALSE when the call ends in
\* an exception (statements[0] of an empty list)
repr(n) ==
    CASE n.tag = "None"  -> [ok |-> TRUE, text |-> repr_token(None)]
      [] n.tag = "token" -> [ok |-> TRUE, text |-> repr_token(n.text)]
      [] n.tag = "Program_AST" -> repr(n.kids[1])
      [] n.tag = "Statements_AST" ->
            IF n.kids = <<>> THEN [ok |-> FALSE, text |-> <<>>]
            ELSE repr_joined(n.kids)
      [] n.tag = "If_Else_AST" ->
            [ok   |-> repr(n.kids[1]).ok /\ repr(n.kids[2]).ok
                      /\ repr(n.kids[3]).ok,
             text |-> Lit_if \o repr(n.kids[1]).text \o Lit_then
                      \o repr(n.kids[2]).text \o Lit_else
                      \o repr(n.kids[3]).text \o IfElseClose]
      [] n.tag = "If_AST" ->
            [ok   |-> repr(n.kids[1]).ok /\ repr(n.kids[2]).ok,
             text |-> Lit_if \o repr(n.kids[1]).text \o Lit_then
                      \o repr(n.kids[2]).text \o Lit_end]
      [] n.tag = "While_AST" ->
            [ok   |-> repr(n.kids[1]).ok /\ repr(n.kids[2]).ok,
             text |-> Lit_while \o repr(n.kids[1]).text \o Lit_do
                      \o repr(n.kids[2]).text \o Lit_end]
      [] n.tag = "Assign_AST" ->
            [ok   |-> repr(n.kids[1]).ok /\ repr(n.kids[2]).ok,
             text |-> repr(n.kids[1]).text \o <<":","=">>
                      \o repr(n.kids[2]).text]
      [] n.tag = "Write_AST" ->
            [ok   |-> repr(n.kids[1]).ok,
             text |-> Lit_write \o repr(n.kids[1]).text]
      [] n.tag = "Read_AST" ->
            [ok   |-> repr(n.kids[1]).ok,
             text |-> Lit_read \o repr(n.kids[1]).text]
      [] n.tag = "Comparison_AST" ->
            [ok   |-> repr(n.kids[1]).ok /\ repr(n.kids[2]).ok,
             text |-> repr(n.kids[1]).text \o n.text \o repr(n.kids[2]).text]
      [] n.tag = "Expression_AST" ->
            [ok   |-> repr(n.kids[1]).ok /\ repr(n.kids[2]).ok,
             text |-> <<"(">> \o repr(n.kids[1]).text \o n.text
                      \o repr(n.kids[2]).text \o <<")">>]
      [] n.tag \in {"Number_AST", "Identifier_AST"} ->
            [ok |-> TRUE, text |-> n.text]

\* Statements_AST.__repr__ on a non-empty list: the items joined by '; '
repr_joined(ns) ==
    IF Len(ns) = 1 THEN repr(ns[1])
    ELSE [ok   |-> repr(ns[1]).ok /\ repr_joined(Tail(ns)).ok,
          text |-> repr(ns[1]).text \o <<";", " ">>
                   \o repr_joined(Tail(ns)).text]

(***************************************************************************)
(* The call stack.  A frame is a parser procedure in progress: its name,   *)
(* the place it has reached (pc), the AST objects its local variables hold *)
(* (loc), its local variable op, and, as history, the number of tokens     *)
(* that had been consumed at each place it passed (marks).                 *)
(***************************************************************************)
Frame(proc) ==
    [proc |-> proc, pc |-> "start", loc |-> <<>>, op |-> <<>>, marks |-> <<>>]

Top == stack[Len(stack)]

\* the number of tokens consumed so far: tokens holds the lookahead too
consumed == Len(tokens) - 1

\* the top frame moved to place label with locals loc and op
At(label, loc, op) ==
    [Top EXCEPT !.pc = label, !.loc = loc, !.op = op,
                !.marks = Append(Top.marks, consumed)]

\* the stack after the top frame, moved on to frame, calls procedure proc
Call(frame, proc) ==
    Append([stack EXCEPT ![Len(stack)] = frame], Frame(proc))

\* the stack after the top frame returns
Pop == SubSeq(stack, 1, Len(stack) - 1)

NoConsume ==
    [expected |-> <<>>, token |-> <<None, <<>>>>, index |-> 0, returned |-> TRUE]

\* procedure proc is the one running
Running(proc) ==
    /\ outcome = "running"
    /\ pc = "parsing"
    /\ stack # <<>>
    /\ Top.proc = proc

\* a step of a procedure that calls no consume
Proceed(newstack, newret) ==
    /\ stack' = newstack
    /\ ret' = newret
    /\ UNCHANGED <<input_string, current_char_index, current_token, pc,
                   outcome, stdout, tokens, last_consume, first, run>>

\* the run goes on after a call of consume exactly when consume returned
Returned(c) == c.status = "ok"

\* the step of a procedure whose call consume(*expected_tokens) ended as c
\* says: when consume returned, the procedure goes on to newstack and newret
AfterConsume(expected_tokens, c, newstack, newret) ==
    /\ last_consume' = [expected |-> expected_tokens,
                        token |-> current_token,
                        index |-> current_char_index,
                        returned |-> Returned(c)]
    /\ current_char_index' = c.index
    /\ current_token' = c.current_token
    /\ stdout' = stdout \o c.out
    /\ IF Returned(c)
       THEN /\ outcome' = "running"
            /\ stack' = newstack
            /\ ret' = newret
            /\ tokens' = Append(tokens, c.current_token)
       ELSE /\ outcome' = c.status
            /\ UNCHANGED <<stack, ret, tokens>>
    /\ UNCHANGED <<input_string, pc, first, run>>

\* a step of a procedure that calls consume(*expected_tokens)
Consuming(expected_tokens, newstack, newret) ==
    \E c \in {consume(expected_tokens)} :
        AfterConsume(expected_tokens, c, newstack, newret)

(***************************************************************************)
(* The recursive-descent parser: one action per procedure.  A step runs    *)
(* the procedure on top of the stack from the place it has reached to its  *)
(* next call of a procedure, or to its return.                             *)
(***************************************************************************)
program ==
    /\ Running("program")
    /\ CASE Top.pc = "start" ->
              Proceed(Call(At("after_statements", <<>>, <<>>), "statements"), ret)
         [] Top.pc = "after_statements" ->
              Proceed(Pop, Program_AST(ret))

statements ==
    /\ Running("statements")
    /\ CASE Top.pc = "start" ->
              Proceed(Call(At("after_statement", <<>>, <<>>), "statement"), ret)
         [] Top.pc = "after_statement" ->
              LET result == Append(Top.loc, ret)
              IN  IF lookahead = Token_SEM
                  THEN Consuming(<<Token_SEM>>,
                           Call(At("after_statement", result, <<>>), "statement"),
                           ret)
                  ELSE Proceed(Pop, Statements_AST(result))

statement ==
    /\ Running("statement")
    /\ CASE Top.pc = "start" ->
              IF lookahead = Token_IF
              THEN Proceed(Call(At("return", <<>>, <<>>), "if_statement"), ret)
              ELSE IF lookahead = Token_WHILE
              THEN Proceed(Call(At("return", <<>>, <<>>), "while_statement"), ret)
              ELSE IF lookahead = Token_ID
              THEN Proceed(Call(At("return", <<>>, <<>>), "assignment"), ret)
              ELSE IF lookahead = Token_READ
              THEN Proceed(Call(At("return", <<>>, <<>>), "read"), ret)
              ELSE IF lookahead = Token_WRITE
              THEN Proceed(Call(At("return", <<>>, <<>>), "write"), ret)
              ELSE LET expected == <<Token_IF, Token_WHILE, Token_ID>>
                   IN  Consuming(expected, Pop, TokenValue(consume(expected).value))
         [] Top.pc = "return" ->
              Proceed(Pop, ret)

\* IfBranch with the tests for ELSE and END exchanged
IfBranch_exchanged ==
    IF lookahead = Token_END THEN "else"
    ELSE IF lookahead = Token_ELSE THEN "end"
    ELSE "none"

\* the branch of if_statement after 'then' and its statements
IfBranch ==
    IF lookahead = Token_ELSE THEN "else"
    ELSE IF lookahead = Token_END THEN "end"
    ELSE "none"

if_statement ==
    /\ Running("if_statement")
    /\ CASE Top.pc = "start" ->
              Consuming(<<Token_IF>>,
                  Call(At("after_condition", <<>>, <<>>), "comparison"), ret)
         [] Top.pc = "after_condition" ->
              Consuming(<<Token_THEN>>,
                  Call(At("after_then", <<ret>>, <<>>), "statements"), ret)
         [] Top.pc = "after_then" ->
              LET condition == Top.loc[1]
                  then      == ret
              IN  IF IfBranch = "else"
                  THEN Consuming(<<Token_ELSE>>,
                           Call(At("after_again", <<condition, then>>, <<>>),
                                "statements"),
                           ret)
                  ELSE IF IfBranch = "end"
                  THEN Consuming(<<Token_END>>, Pop, If_AST(condition, then))
                  ELSE Proceed(Pop, NoneValue)
         [] Top.pc = "after_again" ->
              Consuming(<<Token_END>>, Pop,
                  If_Else_AST(Top.loc[1], Top.loc[2], ret))

while_statement ==
    /\ Running("while_statement")
    /\ CASE Top.pc = "start" ->
              Consuming(<<Token_WHILE>>,
                  Call(At("after_condition", <<>>, <<>>), "comparison"), ret)
         [] Top.pc = "after_condition" ->
              Consuming(<<Token_DO>>,
                  Call(At("after_body", <<ret>>, <<>>), "statements"), ret)
         [] Top.pc = "after_body" ->
              Consuming(<<Token_END>>, Pop, While_AST(Top.loc[1], ret))

assignment ==
    /\ Running("assignment")
    /\ CASE Top.pc = "start" ->
              Proceed(Call(At("after_ident", <<>>, <<>>), "identifier"), ret)
         [] Top.pc = "after_ident" ->
              Consuming(<<Token_BEC>>,
                  Call(At("after_expr", <<ret>>, <<>>), "expression"), ret)
         [] Top.pc = "after_expr" ->
              Proceed(Pop, Assign_AST(Top.loc[1], ret))

read ==
    /\ Running("read")
    /\ CASE Top.pc = "start" ->
              Consuming(<<Token_READ>>,
                  Call(At("after_ident", <<>>, <<>>), "identifier"), ret)
         [] Top.pc = "after_ident" ->
              Proceed(Pop, Read_AST(ret))

write ==
    /\ Running("write")
    /\ CASE Top.pc = "start" ->
              Consuming(<<Token_WRITE>>,
                  Call(At("after_expr", <<>>, <<>>), "expression"), ret)
         [] Top.pc = "after_expr" ->
              Proceed(Pop, Write_AST(ret))

comparison ==
    /\ Running("comparison")
    /\ CASE Top.pc = "start" ->
              Proceed(Call(At("after_left", <<>>, <<>>), "expression"), ret)
         [] Top.pc = "after_left" ->
              LET expected == <<Token_LESS, Token_EQ, Token_GRTR,
                                Token_LEQ, Token_NEQ, Token_GEQ>>
              IN  Consuming(expected,
                      Call(At("after_right", <<ret>>, consume(expected).value[1]),
                           "expression"),
                      ret)
         [] Top.pc = "after_right" ->
              Proceed(Pop, Comparison_AST(Top.loc[1], operator(Top.op), ret))

\* Fold with the two operands exchanged
Fold_swapped(result, op, tree) == Expression_AST(tree, operator(op), result)

\* the body of the loops of expression and term: the tree that joins the
\* tree built so far and the tree of the operand just parsed
Fold(result, op, tree) == Expression_AST(result, operator(op), tree)

\* expression (operand "term", ops ADD and SUB) and term (operand "factor",
\* ops MUL and DIV) are the same loop
ChainStep(operand, ops) ==
    LET result == IF Top.pc = "after_first" THEN ret
                  ELSE Fold(Top.loc[1], Top.op, ret)
    IN  CASE Top.pc = "start" ->
               Proceed(Call(At("after_first", <<>>, <<>>), operand), ret)
          [] Top.pc \in {"after_first", "after_tree"} ->
               IF \E k \in 1..Len(ops) : ops[k] = lookahead
               THEN Consuming(ops,
                        Call(At("after_tree", <<result>>, consume(ops).value[1]),
                             operand),
                        ret)
               ELSE Proceed(Pop, result)

expression ==
    /\ Running("expression")
    /\ ChainStep("term", <<Token_ADD, Token_SUB>>)

term ==
    /\ Running("term")
    /\ ChainStep("factor", <<Token_MUL, Token_DIV>>)

factor ==
    /\ Running("factor")
    /\ CASE Top.pc = "start" ->
              IF lookahead = Token_LPAR
              THEN Consuming(<<Token_LPAR>>,
                       Call(At("after_expr", <<>>, <<>>), "expression"), ret)
              ELSE IF lookahead = Token_NUM
              THEN Consuming(<<Token_NUM>>, Pop,
                       Number_AST(consume(<<Token_NUM>>).value[2]))
              ELSE IF lookahead = Token_ID
              THEN Proceed(Call(At("return", <<>>, <<>>), "identifier"), ret)
              ELSE LET expected == <<Token_LPAR, Token_NUM, Token_ID>>
                   IN  Consuming(expected, Pop, TokenValue(consume(expected).value))
         [] Top.pc = "after_expr" ->
              Consuming(<<Token_RPAR>>, Pop, ret)
         [] Top.pc = "return" ->
              Proceed(Pop, ret)

identifier ==
    /\ Running("identifier")
    /\ Consuming(<<Token_ID>>, Pop,
           Identifier_AST(consume(<<Token_ID>>).value[2]))

(***************************************************************************)
(* The module-level code of parser.py.                                     *)
(***************************************************************************)
\* Scanner.__init__, g being what its call of get_token does
Scanner_got(g) ==
    /\ current_char_index' = g.index
    /\ IF g.raised
       THEN /\ outcome' = "lexical_error"
            /\ stdout' = Append(stdout, no_token(input_string, g.index))
            /\ UNCHANGED <<current_token, tokens, pc>>
       ELSE /\ current_token' = g.token
            /\ tokens' = Append(tokens, g.token)
            /\ pc' = "parse"
            /\ UNCHANGED <<outcome, stdout>>

\* scanner = Scanner(sys.stdin)
Scanner_init ==
    /\ outcome = "running"
    /\ pc = "scanner"
    /\ \E g \in {get_token(input_string, 0)} : Scanner_got(g)
    /\ UNCHANGED <<input_string, stack, ret, last_consume, first, run>>

\* ast = program(): the call
call_program ==
    /\ outcome = "running"
    /\ pc = "parse"
    /\ pc' = "parsing"
    /\ stack' = <<Frame("program")>>
    /\ UNCHANGED <<input_string, current_char_index, current_token, ret,
                   outcome, stdout, tokens, last_consume, first, run>>

\* what the trailing-input check prints
trailing_input(token) ==
    [msg  |-> "syntax error: end of input expected but token [text] found",
     list |-> <<>>,
     text |-> repr_token(token)]

\* EndOfInput with the test left out
EndOfInput_unchecked == TRUE

\* the test of the trailing-input check
EndOfInput == lookahead = None

\* ast = program(): the assignment, and the check that follows it; ast is
\* ret from here on
check_end ==
    /\ outcome = "running"
    /\ pc = "parsing"
    /\ stack = <<>>
    /\ IF EndOfInput
       THEN /\ pc' = "print"
            /\ UNCHANGED <<outcome, stdout>>
       ELSE /\ outcome' = "trailing_input"
            /\ stdout' = Append(stdout, trailing_input(lookahead))
            /\ UNCHANGED pc
    /\ UNCHANGED <<input_string, current_char_index, current_token, stack,
                   ret, tokens, last_consume, first, run>>

\* print_text printing whatever text was built when indented failed
print_text_partial(text) ==
    /\ outcome' = "printed"
    /\ stdout' = Append(stdout,
                     [msg |-> "ast", list |-> <<>>, text |-> text.text])

\* print(ast.indented(0), end=''), text being what ast.indented(0) does
print_text(text) ==
    IF text.ok
    THEN /\ outcome' = "printed"
         /\ stdout' = Append(stdout,
                          [msg |-> "ast", list |-> <<>>, text |-> text.text])
    ELSE /\ outcome' = "AttributeError"
         /\ UNCHANGED stdout

print_ast ==
    /\ outcome = "running"
    /\ pc = "print"
    /\ print_text(indented(ret, 0))
    /\ UNCHANGED <<input_string, current_char_index, current_token, stack,
                   ret, pc, tokens, last_consume, first, run>>

(***************************************************************************)
(* The inputs.  A program text is a sequence of words laid out with one    *)
(* space between them; the words come from the grammar, cut off after any  *)
(* number of words and followed by nothing, by a stray 'end' or by a       *)
(* character that starts no token.  To these are added the texts made of   *)
(* a few pieces set side by side with no space between them.               *)
(***************************************************************************)
MaxOps == 3       \* operators in a chain of operands

MaxStmts == 2     \* statements in a sequence of simple statements

MaxPieces == 3    \* pieces set side by side

W_if    == <<"i","f">>
W_then  == <<"t","h","e","n">>
W_else  == <<"e","l","s","e">>
W_end   == <<"e","n","d">>
W_while == <<"w","h","i","l","e">>
W_do    == <<"d","o">>
W_read  == <<"r","e","a","d">>
W_write == <<"w","r","i","t","e">>
W_bec   == <<":","=">>

\* the k-th operand of a chain: an identifier, every third one a number
Operand(k) ==
    LET names == <<"a","b","c","d","e","f","g","h">>
        digit == <<"1","2","3","4","5","6","7","8">>
    IN  IF k % 3 = 0 THEN <<digit[k], digit[k]>> ELSE <<names[k]>>

ArithOps == {<<"+">>, <<"-">>, <<"*">>, <<"/">>}

RelOps == {<<"<">>, <<"=">>, <<">">>, <<"<","=">>, <<"!","=">>, <<">","=">>}

RECURSIVE Chains(_)
\* the chains of k operators
Chains(k) ==
    IF k = 0 THEN {<<Operand(1)>>}
    ELSE {c \o <<op, Operand(k + 1)>> : c \in Chains(k - 1), op \in ArithOps}

ParenExprs ==
    {<<<<"(">>>> \o c \o <<<<")">>, op, <<"z">>>> :
        c \in Chains(1), op \in {<<"*">>, <<"-">>}}
    \cup {<<<<"z">>, op, <<"(">>>> \o c \o <<<<")">>>> :
        c \in Chains(1), op \in {<<"/">>, <<"+">>}}
    \cup {<< <<"(">>, <<"(">>, <<"7">>, <<")">>, <<")">> >>,
          << <<"(">>, <<"a">>, <<")">>, <<")">> >>}

Exprs == (UNION {Chains(k) : k \in 0..MaxOps}) \cup ParenExprs

ExprPrograms == {<<<<"x">>, W_bec>> \o e : e \in Exprs}

Simple ==
    { <<W_read, <<"x">>>>,
      <<<<"x">>, W_bec, <<"1">>>>,
      <<W_write, <<"a">>, <<"+">>, <<"1">>>> }

RECURSIVE SimpleSeqs(_)
\* the sequences of n simple statements
SimpleSeqs(n) ==
    IF n = 1 THEN Simple
    ELSE {s \o <<<<";">>>> \o t : s \in SimpleSeqs(n - 1), t \in Simple}

Seqs0 == UNION {SimpleSeqs(n) : n \in 1..MaxStmts}

Cond0 == <<<<"a">>, <<"<">>, <<"1">>>>

Conds ==
    {<<<<"a">>, r, <<"b">>>> : r \in RelOps}
    \cup {<< <<"a">>, <<"+">>, <<"b">>, <<"<">>, <<"c">>, <<"*">>, <<"d">> >>,
          << <<"a">>, <<"<">>, <<"b">>, <<"<">>, <<"c">> >>}

IfThen(c, b) == <<W_if>> \o c \o <<W_then>> \o b \o <<W_end>>

IfThenElse(c, b, e) ==
    <<W_if>> \o c \o <<W_then>> \o b \o <<W_else>> \o e \o <<W_end>>

WhileDo(c, b) == <<W_while>> \o c \o <<W_do>> \o b \o <<W_end>>

\* the compound statements around the bodies B
Wrap(B) ==
    {IfThen(Cond0, b) : b \in B}
    \cup {IfThenElse(Cond0, b, <<W_read, <<"x">>>>) : b \in B}
    \cup {IfThenElse(Cond0, <<<<"x">>, W_bec, <<"1">>>>, b) : b \in B}
    \cup {WhileDo(Cond0, b) : b \in B}

StmtPrograms ==
    Seqs0
    \cup Wrap(Seqs0)
    \cup Wrap(Wrap(Simple))
    \cup {w \o <<<<";">>>> \o s : w \in Wrap({<<W_read, <<"x">>>>}), s \in Simple}
    \cup {IfThen(c, <<W_read, <<"x">>>>) : c \in Conds}
    \cup {WhileDo(c, <<W_read, <<"x">>>>) : c \in Conds}

\* what may follow the words kept of a damaged program
Strays == {<<>>, <<W_end>>, <<<<"$">>>>}

Damaged(P) ==
    UNION {{SubSeq(p, 1, k) \o e : k \in 0..Len(p), e \in Strays} : p \in P}

RECURSIVE Join(_)
\* the words with one space between them
Join(words) ==
    IF words = <<>> THEN <<>>
    ELSE IF Len(words) = 1 THEN words[1]
    ELSE words[1] \o <<" ">> \o Join(Tail(words))

Pieces ==
    {W_while, W_do, <<"x">>, <<"1">>, <<"<">>, <<"=">>, <<"!">>, <<":">>,
     <<" ">>, <<"\n">>}

RECURSIVE PieceTexts(_)
\* the texts of n pieces
PieceTexts(n) ==
    IF n = 0 THEN {<<>>}
    ELSE {t \o p : t \in PieceTexts(n - 1), p \in Pieces}

Inputs ==
    {Join(p) : p \in Damaged(StmtPrograms) \cup ExprPrograms}
    \cup (UNION {PieceTexts(n) : n \in 0..MaxPieces})

(***************************************************************************)
(* The run of parser.py on one input.                                      *)
(***************************************************************************)
\* the value of first before the rerun
NoRun == [input |-> <<>>, tokens |-> <<>>, outcome |-> "none", ret |-> NoneValue]

Init ==
    /\ input_string \in Inputs
    /\ current_char_index = 0
    /\ current_token = <<None, <<>>>>
    /\ stack = <<>>
    /\ ret = NoneValue
    /\ pc = "scanner"
    /\ outcome = "running"
    /\ stdout = <<>>
    /\ tokens = <<>>
    /\ last_consume = NoConsume
    /\ first = NoRun
    /\ run = 1

Next ==
    \/ Scanner_init
    \/ call_program
    \/ program
    \/ statements
    \/ statement
    \/ if_statement
    \/ while_statement
    \/ assignment
    \/ read
    \/ write
    \/ comparison
    \/ expression
    \/ term
    \/ factor
    \/ identifier
    \/ check_end
    \/ print_ast

Spec == Init /\ [][Next]_vars

(***************************************************************************)
(* Properties.                                                             *)
(***************************************************************************)
\* current_token is what the last call of get_token returned
TokenScanned == tokens # <<>> /\ outcome # "lexical_error"

\* the cursor where the scan of current_token started, after the white space
TokenStart == current_char_index - Len(current_token[2])

\* the length of the match of entry k of the table at cursor i, 0 for none
MatchLength(k, i) ==
    LET m == re_match(token_regexp[k][2], input_string, i)
    IN  IF m = -1 THEN 0 ELSE m

\* the entry of the table that maximal munch selects at cursor i: the
\* longest match, and among the longest the earliest entry
Selected(k, i) ==
    /\ MatchLength(k, i) > 0
    /\ \A j \in 1..Len(token_regexp) :
          /\ MatchLength(j, i) <= MatchLength(k, i)
          /\ MatchLength(j, i) = MatchLength(k, i) => k <= j

Keywords == 1..8

\* the maximal run of lower-case letters at cursor i
LetterRun(i) ==
    SubSeq(input_string, i + 1, i + RunLength(Lower, input_string, i))

\* the text at cursor i starts with the characters cs
StartsWith(i, cs) ==
    /\ i + Len(cs) <= Len(input_string)
    /\ SubSeq(input_string, i + 1, i + Len(cs)) = cs

\* C1: every token that get_token returns is the entry of the token table
\* with the longest match at the cursor, the earliest such entry on a tie;
\* so it is a keyword exactly when the maximal run of lower-case letters at
\* the cursor is that keyword, and '<=' and '>=' come out as LEQ and GEQ.
C1_MaximalMunch ==
    (TokenScanned /\ current_token[1] # None) =>
        /\ \E k \in 1..Len(token_regexp) :
              /\ Selected(k, TokenStart)
              /\ current_token[1] = token_regexp[k][1]
              /\ Len(current_token[2]) = MatchLength(k, TokenStart)
        /\ current_token[2] =
              SubSeq(input_string, TokenStart + 1, current_char_index)
        /\ \A k \in Keywords :
              current_token[1] = token_regexp[k][1]
                  <=> LetterRun(TokenStart) = token_regexp[k][2].lit
        /\ StartsWith(TokenStart, <<"<","=">>) => current_token[1] = Token_LEQ
        /\ StartsWith(TokenStart, <<">","=">>) => current_token[1] = Token_GEQ

\* C1 witness: 'whilex' has been scanned as one ID
C1_Witness ==
    /\ TokenScanned
    /\ current_token = <<Token_ID, <<"w","h","i","l","e","x">>>>

(***************************************************************************)
(* The reference the properties of whole inputs are stated against: the   *)
(* tokens of the whole input, and the sentences of the grammar             *)
(*   Program := Statements, Statements := Statement (SEM Statement)*, ...  *)
(* Ends<N>(t, i) is the set of the indices j such that the tokens          *)
(* t[i], ..., t[j-1] form an N.                                            *)
(***************************************************************************)
RECURSIVE ScanFrom(_, _)
\* g and what get_token returns after it, up to the end of the input or to
\* the first lexical error
ScanOn(s, g) ==
    IF g.raised \/ g.token[1] = None THEN <<g>>
    ELSE <<g>> \o ScanFrom(s, g.index)

ScanFrom(s, i) == ScanOn(s, get_token(s, i))

\* no scan of scans ended in the lexical error
NoneRaised(scans) == ~scans[Len(scans)].raised

\* every character of s is white space or part of a token
LexicallyValid(s) == NoneRaised(ScanFrom(s, 0))

\* the token kinds of scans, without the end-of-input marker
Kinds(scans) == [k \in 1..(Len(scans) - 1) |-> scans[k].token[1]]

\* the token kinds of s
KindsOf(s) == Kinds(ScanFrom(s, 0))

KindAt(t, i) == IF i \in 1..Len(t) THEN t[i] ELSE None

\* the indices of J at which the token is one of kinds
Before(t, J, kinds) == {j \in J : KindAt(t, j) \in kinds}

RECURSIVE EndsFactor(_, _)
RECURSIVE EndsTerm(_, _)
RECURSIVE EndsExpression(_, _)
RECURSIVE MoreFactors(_, _)
RECURSIVE MoreTerms(_, _)

EndsFactor(t, i) ==
    IF KindAt(t, i) \in {Token_NUM, Token_ID} THEN {i + 1}
    ELSE IF KindAt(t, i) = Token_LPAR
    THEN {j + 1 : j \in Before(t, EndsExpression(t, i + 1), {Token_RPAR})}
    ELSE {}

\* J and the ends of (MUL|DIV) Factor repeated from the indices J
MoreFactors(t, J) ==
    IF J = {} THEN {}
    ELSE J \cup MoreFactors(t,
             UNION {EndsFactor(t, j + 1) :
                        j \in Before(t, J, {Token_MUL, Token_DIV})})

EndsTerm(t, i) == MoreFactors(t, EndsFactor(t, i))

MoreTerms(t, J) ==
    IF J = {} THEN {}
    ELSE J \cup MoreTerms(t,
             UNION {EndsTerm(t, j + 1) :
                        j \in Before(t, J, {Token_ADD, Token_SUB})})

EndsExpression(t, i) == MoreTerms(t, EndsTerm(t, i))

EndsComparison(t, i) ==
    UNION {EndsExpression(t, j + 1) :
               j \in Before(t, EndsExpression(t, i),
                            {Token_LESS, Token_EQ, Token_GRTR,
                             Token_LEQ, Token_NEQ, Token_GEQ})}

RECURSIVE EndsStatement(_, _)
RECURSIVE EndsStatements(_, _)
RECURSIVE MoreStatements(_, _)

\* the ends of Statements after the token of kind from the indices J
StatementsAfter(t, J, kind) ==
    UNION {EndsStatements(t, j + 1) : j \in Before(t, J, {kind})}

\* the ends of END from the indices J
EndAfter(t, J) == {j + 1 : j \in Before(t, J, {Token_END})}

EndsStatement(t, i) ==
    IF KindAt(t, i) = Token_IF
    THEN EndAfter(t, StatementsAfter(t, EndsComparison(t, i + 1), Token_THEN))
         \cup EndAfter(t, StatementsAfter(t,
                  StatementsAfter(t, EndsComparison(t, i + 1), Token_THEN),
                  Token_ELSE))
    ELSE IF KindAt(t, i) = Token_WHILE
    THEN EndAfter(t, StatementsAfter(t, EndsComparison(t, i + 1), Token_DO))
    ELSE IF KindAt(t, i) = Token_ID /\ KindAt(t, i + 1) = Token_BEC
    THEN EndsExpression(t, i + 2)
    ELSE IF KindAt(t, i) = Token_READ /\ KindAt(t, i + 1) = Token_ID
    THEN {i + 2}
    ELSE IF KindAt(t, i) = Token_WRITE
    THEN EndsExpression(t, i + 1)
    ELSE {}

MoreStatements(t, J) ==
    IF J = {} THEN {}
    ELSE J \cup MoreStatements(t,
             UNION {EndsStatement(t, j + 1) : j \in Before(t, J, {Token_SEM})})

EndsStatements(t, i) == MoreStatements(t, EndsStatement(t, i))

\* the tokens t are a Program
Sentence(t) == (Len(t) + 1) \in EndsStatements(t, 1)

\* the run is over
Finished == outcome # "running"

\* program() has returned and the end-of-input check has passed
Accepted == pc = "print"

\* the ways a run ends when consume or the end-of-input check rejects the
\* input; consume ends the run in a TypeError where its call of
\* unexpected_token does not fit
Rejections == {"syntax_error", "trailing_input", "TypeError"}

\* C2: the run of program() and the end-of-input check succeeds if and only
\* if the tokens of the input are a sentence of the grammar rooted at
\* Program; every other token sequence is rejected by consume or by the
\* trailing-input check, and no procedure returns normally on tokens its
\* rule cannot derive.
C2_AcceptsExactlySentences ==
    (Finished /\ LexicallyValid(input_string)) =>
        /\ Accepted <=> Sentence(KindsOf(input_string))
        /\ ~Sentence(KindsOf(input_string)) => outcome \in Rejections

(***************************************************************************)
(* The reference tree of a chain of operands and operators, given as the   *)
(* tokens ts of an Expression: split at the last ADD or SUB outside        *)
(* parentheses, else at the last MUL or DIV outside parentheses.           *)
(***************************************************************************)
\* the number of parentheses open before token k of ts
RECURSIVE Open(_, _)
Open(ts, k) ==
    IF k <= 1 THEN 0
    ELSE Open(ts, k - 1)
         + (IF ts[k - 1][1] = Token_LPAR THEN 1 ELSE 0)
         - (IF ts[k - 1][1] = Token_RPAR THEN 1 ELSE 0)

\* the indices of the tokens of ts of a kind in ops outside parentheses
Outside(ts, ops) == {k \in 1..Len(ts) : ts[k][1] \in ops /\ Open(ts, k) = 0}

\* the greatest element of the set K of indices, 0 when K is empty
Greatest(K) == IF K = {} THEN 0 ELSE CHOOSE k \in K : \A j \in K : j <= k

RECURSIVE RefExpression(_)
RECURSIVE RefTerm(_)

RefFactor(ts) ==
    IF ts[1][1] = Token_LPAR THEN RefExpression(SubSeq(ts, 2, Len(ts) - 1))
    ELSE IF ts[1][1] = Token_NUM THEN Node("Number_AST", ts[1][2], <<>>)
    ELSE Node("Identifier_AST", ts[1][2], <<>>)

\* the node of the operator at index k of ts, its text being the symbol of
\* that token, over the two sides built by Left and Right
RefNode(ts, k, left, right) == Node("Expression_AST", ts[k][2], <<left, right>>)

RefTermAt(ts, k) ==
    IF k = 0 THEN RefFactor(ts)
    ELSE RefNode(ts, k, RefTerm(SubSeq(ts, 1, k - 1)),
                        RefFactor(SubSeq(ts, k + 1, Len(ts))))

RefTerm(ts) == RefTermAt(ts, Greatest(Outside(ts, {Token_MUL, Token_DIV})))

RefExpressionAt(ts, k) ==
    IF k = 0 THEN RefTerm(ts)
    ELSE RefNode(ts, k, RefExpression(SubSeq(ts, 1, k - 1)),
                        RefTerm(SubSeq(ts, k + 1, Len(ts))))

RefExpression(ts) ==
    RefExpressionAt(ts, Greatest(Outside(ts, {Token_ADD, Token_SUB})))

\* the step is the return of procedure proc
Returns(proc) == Running(proc) /\ outcome' = "running" /\ stack' = Pop

\* the tokens that the procedure on top of the stack has consumed
TokensOfTop == SubSeq(tokens, Top.marks[1] + 1, consumed)

\* C3: the tree that expression() returns is the reference tree of the
\* tokens it consumed: factors joined by MUL/DIV folded left to right,
\* the terms joined by ADD/SUB folded left to right, each node holding the
\* symbol of its operator token.
C3_LeftFoldedChains ==
    [][Returns("expression") => ret' = RefExpression(TokensOfTop)]_vars

Leaf_a == Identifier_AST(<<"a">>)

Leaf_b == Identifier_AST(<<"b">>)

Leaf_33 == Number_AST(<<"3","3">>)

\* C3 witness: expression() has returned (a+(b*33)), ((a-b)-33) or
\* ((a/b)/33)
C3_Witness ==
    /\ outcome = "running"
    /\ stack # <<>>
    /\ Top.proc = "assignment"
    /\ ret \in {Expression_AST(Leaf_a, <<"+">>,
                    Expression_AST(Leaf_b, <<"*">>, Leaf_33)),
                Expression_AST(Expression_AST(Leaf_a, <<"-">>, Leaf_b),
                    <<"-">>, Leaf_33),
                Expression_AST(Expression_AST(Leaf_a, <<"/">>, Leaf_b),
                    <<"/">>, Leaf_33)}

\* the kinds of the tokens scanned so far
KindsSoFar == [k \in 1..Len(tokens) |-> tokens[k][1]]

\* the scan of the token after the lookahead does not end in the lexical
\* error
NextTokenScans == ~get_token(input_string, current_char_index).raised

\* if_statement stands after 'IF Comparison THEN Statements'
AfterThen == Running("if_statement") /\ Top.pc = "after_then"

\* if_statement stands after 'IF Comparison THEN Statements ELSE Statements'
AfterElse == Running("if_statement") /\ Top.pc = "after_again"

\* the step consumes the lookahead, an END, and returns node from
\* if_statement: the next token becomes the lookahead, and the tokens
\* consumed since if_statement began are an If of the grammar with IF at
\* their start and THEN after the condition
ReturnsIf(node) ==
    /\ outcome' = "running"
    /\ stack' = Pop
    /\ ret' = node
    /\ node.kids[1].tag = "Comparison_AST"
    /\ \A k \in 2..Len(node.kids) : node.kids[k].tag = "Statements_AST"
    /\ tokens' = Append(tokens, current_token')
    /\ current_token' = get_token(input_string, current_char_index).token
    /\ KindsSoFar[Top.marks[1] + 1] = Token_IF
    /\ KindsSoFar[Top.marks[2] + 1] = Token_THEN
    /\ KindsSoFar[consumed + 1] = Token_END
    /\ (consumed + 2) \in EndsStatement(KindsSoFar, Top.marks[1] + 1)

\* C4: after IF Comparison THEN Statements, if_statement chooses by the
\* lookahead: END gives an IfThen node of exactly (condition, then) and
\* consumes that END; ELSE gives, after ELSE, a second Statements and END,
\* an IfThenElse node of exactly (condition, then, else); either way the
\* tokens consumed are those of the If rule and the token after END becomes
\* the lookahead.
C4_IfVariantByLookahead ==
    [][/\ (AfterThen /\ lookahead = Token_END /\ NextTokenScans) =>
             ReturnsIf(Node("If_AST", <<>>, <<Top.loc[1], ret>>))
       /\ (AfterThen /\ lookahead = Token_ELSE /\ NextTokenScans) =>
             /\ outcome' = "running"
             /\ Len(stack') = Len(stack) + 1
             /\ stack'[Len(stack')].proc = "statements"
             /\ stack'[Len(stack)].pc = "after_again"
             /\ stack'[Len(stack)].loc = <<Top.loc[1], ret>>
             /\ tokens' = Append(tokens, current_token')
       /\ (AfterElse /\ lookahead = Token_END /\ NextTokenScans) =>
             /\ ReturnsIf(Node("If_Else_AST", <<>>,
                               <<Top.loc[1], Top.loc[2], ret>>))
             /\ KindsSoFar[Top.marks[3] + 1] = Token_ELSE
      ]_vars

\* C4 witness: if_statement has returned an IfThenElse node whose then
\* branch is an IfThen node
C4_Witness ==
    /\ outcome = "running"
    /\ ret.tag = "If_Else_AST"
    /\ Len(ret.kids) = 3
    /\ ret.kids[2].kids[1].tag = "If_AST"
    /\ Len(ret.kids[2].kids[1].kids) = 2

\* program() has returned to the module-level code
ProgramReturned == outcome = "running" /\ pc = "parsing" /\ stack = <<>>

\* the line 'syntax error: end of input expected but token X found'
TrailingInputLine(kind) ==
    [msg  |-> "syntax error: end of input expected but token [text] found",
     list |-> <<>>,
     text |-> <<"'">> \o kind \o <<"'">>]

\* C5: when program() returns and the lookahead is a token, not the end of
\* the input, the driver prints the trailing-input error naming the kind of
\* the lookahead and the run ends there: the rendering step is not reached
\* and nothing happens after the error.
C5_TrailingInputRejected ==
    [][/\ (ProgramReturned /\ lookahead # None) =>
             /\ outcome' = "trailing_input"
             /\ pc' # "print"
             /\ stdout' = <<TrailingInputLine(lookahead)>>
       /\ outcome # "trailing_input"
      ]_vars

\* C5 witness: 'x := 1 end' has ended in the trailing-input error on END
C5_Witness ==
    /\ outcome = "trailing_input"
    /\ input_string = <<"x"," ",":","="," ","1"," ","e","n","d">>
    /\ stdout = <<TrailingInputLine(Token_END)>>
    /\ ret.tag = "Program_AST"

\* the last call of consume found a token that was not expected
LastMismatch ==
    /\ last_consume.expected # <<>>
    /\ ~IsExpected(last_consume.token[1], last_consume.expected)

\* C6: when consume is called with a lookahead that is not expected, the
\* diagnostic printed names the kinds passed as expected, in sorted order,
\* and the kind found (None at the end of the input), for a call with one
\* kind and for a call with several.
C6_DiagnosticNamesExpectedKinds ==
    LastMismatch =>
        /\ Len(stdout) = 1
        /\ stdout[1].list = sorted(last_consume.expected)
        /\ stdout[1].text = repr_token(last_consume.token[1])

\* C7: when consume is called with a lookahead that is not expected, it
\* does not return, the cursor and the buffered lookahead stay as they were
\* before the call, and the run has ended: no step follows, so no token is
\* scanned and no procedure runs any more.
C7_ConsumeFailsFast ==
    /\ [](LastMismatch =>
             /\ ~last_consume.returned
             /\ outcome \in {"syntax_error", "TypeError"}
             /\ current_token = last_consume.token
             /\ current_char_index = last_consume.index)
    /\ [][~LastMismatch]_vars

\* C7 witness: consume(THEN) has found END, inside three procedures
C7_Witness ==
    /\ LastMismatch
    /\ last_consume.expected = <<Token_THEN>>
    /\ last_consume.token[1] = Token_END
    /\ ~last_consume.returned
    /\ Len(stack) >= 3

\* the records of stdout that are (part of) a rendering of the AST
Renderings == {k \in DOMAIN stdout : stdout[k].msg = "ast"}

\* C8: an AST rendering is written only for an input that is lexically
\* valid in full and a sentence of the grammar; a run that fails writes no
\* rendering and no part of one.
C8_NoRenderingOnError ==
    Renderings # {} =>
        /\ outcome = "printed"
        /\ LexicallyValid(input_string)
        /\ Sentence(KindsOf(input_string))
        /\ Len(stdout) = 1
        /\ stdout[1].text = indented(ret, 0).text
        /\ indented(ret, 0).ok

\* C8 witness: the rendering of a program with an if-else has been printed
C8_Witness ==
    /\ outcome = "printed"
    /\ Renderings = {1}
    /\ SubSeq(stdout[1].text, 1, 23) =
          <<"S","t","a","t","e","m","e","n","t","s","\n",
            " "," "," "," ","I","f","-","E","l","s","e","\n">>

\* the line 'lexical error: no token found at the start of ...'
LexicalErrorLine(rest) ==
    [msg  |-> "lexical error: no token found at the start of ",
     list |-> <<>>,
     text |-> rest]

\* the cursor before the call of get_token that returned current_token
CursorBefore ==
    IF last_consume.expected = <<>> THEN 0 ELSE last_consume.index

\* what C9 says of a state
C9_State ==
    /\ (TokenScanned /\ last_consume.returned) =>
          /\ \A j \in (CursorBefore + 1)..TokenStart : isspace(input_string[j])
          /\ current_token[1] = None <=> TokenStart = Len(input_string)
          /\ current_token[1] = None => current_token[2] = <<>>
          /\ current_token[1] # None =>
                \E k \in 1..Len(token_regexp) : MatchLength(k, TokenStart) > 0
    /\ outcome = "lexical_error" =>
          /\ current_char_index < Len(input_string)
          /\ ~isspace(input_string[current_char_index + 1])
          /\ \A k \in 1..Len(token_regexp) :
                MatchLength(k, current_char_index) = 0
          /\ stdout = <<LexicalErrorLine(SubSeq(input_string,
                            current_char_index + 1, Len(input_string)))>>

\* C9: after the white space, get_token returns the end-of-input marker
\* (None, '') exactly when the cursor is at the end of the input, and ends
\* in the lexical error exactly when the cursor is before the end and no
\* entry of the table matches there; the diagnostic shows the rest of the
\* input from that position, and no step follows the error.
C9_EndMarkerAndLexicalError ==
    /\ []C9_State
    /\ [][outcome # "lexical_error"]_vars

\* C9 witness: after some tokens, a lexical error at '$'
C9_Witness ==
    /\ outcome = "lexical_error"
    /\ Len(tokens) >= 3
    /\ stdout[1].text[1] = "$"
    /\ current_char_index > 0
    /\ isspace(input_string[current_char_index])

\* ---------------------------------------------------------------------
\* The same token sequence written with other white space

\* the white space put before, between and after the tokens
Styles == {<<"\n">>, <<"\t", " ">>, <<" ", "\r", "\n">>}

\* the text of scan g: its lexeme, nothing for the end-of-input marker, the
\* rest of s for the lexical error
TextOf(g, s) ==
    IF g.raised THEN SubSeq(s, g.index + 1, Len(s)) ELSE g.token[2]

\* the texts of scans from the k-th on, with w before each and after the last
RECURSIVE Spaced(_, _, _, _)
Spaced(scans, k, w, s) ==
    IF k > Len(scans) THEN <<>>
    ELSE IF scans[k].raised \/ scans[k].token[1] = None
    THEN w \o TextOf(scans[k], s)
    ELSE w \o TextOf(scans[k], s) \o Spaced(scans, k + 1, w, s)

\* token, written directly before the text follows, is no longer scanned
\* as token
Merges(token, follows) == get_token(token[2] \o follows, 0).token # token

\* a blank where the two texts would merge, nothing where they do not
Gap(token, follows) == IF Merges(token, follows) THEN <<" ">> ELSE <<>>

\* the texts of scans from the k-th on, without white space wherever that
\* merges no token
RECURSIVE Compact(_, _, _)
Compact(scans, k, s) ==
    IF scans[k].raised \/ scans[k].token[1] = None
    THEN TextOf(scans[k], s)
    ELSE TextOf(scans[k], s)
         \o Gap(scans[k].token, TextOf(scans[k + 1], s))
         \o Compact(scans, k + 1, s)

\* the texts of the tokens of s with other white space around them
RespacedScans(scans, s) ==
    {Spaced(scans, 1, w, s) : w \in Styles} \cup {Compact(scans, 1, s)}

Respaced(s) == RespacedScans(ScanFrom(s, 0), s) \ {s}

\* what a finished run leaves to compare a second run with
ThisRun ==
    [input |-> input_string, tokens |-> tokens, outcome |-> outcome,
     ret |-> ret]

\* the program is run again, on alt
RunAgain(alt) ==
    /\ first' = ThisRun
    /\ run' = 2
    /\ input_string' = alt
    /\ current_char_index' = 0
    /\ current_token' = <<None, <<>>>>
    /\ stack' = <<>>
    /\ ret' = NoneValue
    /\ pc' = "scanner"
    /\ outcome' = "running"
    /\ stdout' = <<>>
    /\ tokens' = <<>>
    /\ last_consume' = NoConsume

\* after a run has ended, the program is run on the same tokens written
\* with other white space
Rerun ==
    /\ run = 1
    /\ outcome # "running"
    /\ \E alt \in Respaced(input_string) : RunAgain(alt)

NextWS == Next \/ Rerun

SpecWS == Init /\ [][NextWS]_vars

\* the second run has ended
SecondRunEnded == run = 2 /\ outcome # "running"

\* C10: two inputs that differ only in the white space before, between and
\* after their tokens give the same sequence of (kind, lexeme) pairs and
\* the same tree, or fail alike.
C10_WhitespaceInsensitive ==
    SecondRunEnded =>
        /\ tokens = first.tokens
        /\ outcome = first.outcome
        /\ ret = first.ret

\* C10 witness: 'x := 1 + 2 * 33' and 'x:=1+2*33' have both been parsed
C10_Witness ==
    /\ SecondRunEnded
    /\ outcome = "printed"
    /\ Len(tokens) >= 8
    /\ \E k \in 1..Len(first.input) : first.input[k] = " "
    /\ \A k \in 1..Len(input_string) : ~isspace(input_string[k])

\* ---------------------------------------------------------------------
\* The Statements nodes

\* the classes of the Statement nodes
StatementTags ==
    {"If_AST", "If_Else_AST", "While_AST", "Assign_AST", "Read_AST",
     "Write_AST"}

\* the Statements node that statements has just returned, if any
StatementsBuilt == pc = "parsing" /\ ret.tag = "Statements_AST"

\* C11: every Statements node the parser constructs, whether program body,
\* then-branch, else-branch or while body, holds a non-empty sequence each
\* item of which is a Statement node (If, If-Else, While, Assign, Read or
\* Write).
C11_StatementsHoldStatements ==
    StatementsBuilt =>
        /\ ret.kids # <<>>
        /\ \A k \in DOMAIN ret.kids : ret.kids[k].tag \in StatementTags

\* ---------------------------------------------------------------------
\* The renderings of the tree that program() returned

\* C12: for every tree that program() returns and that passes the
\* end-of-input check, indented(0) and repr both return text, and the run
\* does not fail after parsing has finished.
C12_RenderingsNeverFail ==
    Accepted =>
        /\ indented(ret, 0).ok
        /\ repr(ret).ok
        /\ outcome \in {"running", "printed"}

\* ---------------------------------------------------------------------
\* The layout of the indented rendering

RECURSIVE NodeCount(_)
RECURSIVE NodeCountEach(_)
\* the number of the nodes of the tree n, n included
NodeCount(n) == 1 + NodeCountEach(n.kids)

NodeCountEach(ns) ==
    IF ns = <<>> THEN 0 ELSE NodeCount(ns[1]) + NodeCountEach(Tail(ns))

\* the number of lines of text
LineCount(text) == Cardinality({k \in DOMAIN text : text[k] = "\n"})

\* what the line of node n shows: the label of its kind, its operator
\* symbol, or its literal text
Label(n) ==
    CASE n.tag = "Program_AST"    -> <<"P","r","o","g","r","a","m">>
      [] n.tag = "Statements_AST" -> <<"S","t","a","t","e","m","e","n","t","s">>
      [] n.tag = "If_AST"         -> <<"I","f">>
      [] n.tag = "If_Else_AST"    -> <<"I","f","-","E","l","s","e">>
      [] n.tag = "While_AST"      -> <<"W","h","i","l","e">>
      [] n.tag = "Assign_AST"     -> <<"A","s","s","i","g","n">>
      [] n.tag = "Read_AST"       -> <<"R","e","a","d">>
      [] n.tag = "Write_AST"      -> <<"W","r","i","t","e">>
      [] OTHER                    -> n.text

\* the line of a node at depth depth: four blanks for each level, what the
\* node shows, and the end of the line
Row(n, depth) == [k \in 1..(4 * depth) |-> " "] \o Label(n) \o <<"\n">>

RECURSIVE Rows(_, _)
RECURSIVE RowsEach(_, _)
\* one line for n at depth depth, then the lines of its children, in
\* their order, at depth + 1
Rows(n, depth) == Row(n, depth) \o RowsEach(n.kids, depth + 1)

RowsEach(ns, depth) ==
    IF ns = <<>> THEN <<>>
    ELSE Rows(ns[1], depth) \o RowsEach(Tail(ns), depth)

\* the rendering that has been printed
Printed == outcome = "printed"

\* C13 as stated: in the indented rendering every node of the tree,
\* Program included, contributes exactly one line, at four blanks for each
\* level of its depth, after its parent's line and in child order, showing
\* the label of its kind, its operator symbol or its literal text; the
\* number of lines equals the number of nodes.
C13_EveryNodeOneLine ==
    Printed =>
        /\ stdout[1].text = Rows(ret, 0)
        /\ LineCount(stdout[1].text) = NodeCount(ret)

\* C13 amended: the Program node contributes no line; the rendering is that
\* of its Statements child at depth 0, in which every node contributes
\* exactly one line as above, so that the number of lines is the number of
\* nodes less one.
C13_EveryNodeButProgramOneLine ==
    Printed =>
        /\ ret.tag = "Program_AST"
        /\ stdout[1].text = Rows(ret.kids[1], 0)
        /\ LineCount(stdout[1].text) = NodeCount(ret) - 1

\* C13 witness: a rendering with a line at depth 5 has been printed
C13_Witness ==
    /\ Printed
    /\ \E k \in 1..(Len(stdout[1].text) - 21) :
          /\ stdout[1].text[k] = "\n"
          /\ \A j \in 1..20 : stdout[1].text[k + j] = " "
          /\ stdout[1].text[k + 21] # " "

\* ---------------------------------------------------------------------
\* The single-line rendering, parsed again

\* after a run has printed its tree, the program is run on repr(ast)
Reparse ==
    /\ run = 1
    /\ Printed
    /\ repr(ret).ok
    /\ RunAgain(repr(ret).text)

NextRT == Next \/ Reparse

SpecRT == Init /\ [][NextRT]_vars

\* C14: the single-line rendering of every successfully parsed program is
\* accepted by the scanner and the parser, and parsing it yields the tree
\* it was rendered from, for every node variant including If-Else and
\* nested if and while statements.
C14_ReprParsesToSameTree ==
    SecondRunEnded => Printed /\ ret = first.ret

\* ---------------------------------------------------------------------
\* The exit status of the process

\* the runs that ended by sys.exit() after a diagnostic
ReportedErrors == {"lexical_error", "syntax_error", "trailing_input"}

\* the exit status of a run that has ended: sys.exit() is called without an
\* argument, which is status 0 as at the normal end of the module; an
\* exception that nothing catches is status 1
exit_status ==
    CASE outcome = "printed" -> 0
      [] outcome \in ReportedErrors -> 0
      [] outcome \in {"TypeError", "AttributeError"} -> 1

\* C15: a run that prints the AST ends with exit status 0, and every run
\* that reports a lexical error, a syntax error of consume or the
\* trailing-input error ends with an exit status other than that of a
\* successful run.
C15_ExitStatusTellsFailure ==
    /\ Printed => exit_status = 0
    /\ outcome \in ReportedErrors => exit_status # 0

\* ---------------------------------------------------------------------
\* ply_parser.py: the tokens and the grammar it hands to PLY

\* the names that the docstrings of the p_ functions use
Sym_Program     == <<"P","r","o","g","r","a","m">>
Sym_Statements  == <<"S","t","a","t","e","m","e","n","t","s">>
Sym_Statement   == <<"S","t","a","t","e","m","e","n","t">>
Sym_If          == <<"I","f">>
Sym_While       == <<"W","h","i","l","e">>
Sym_Assignment  == <<"A","s","s","i","g","n","m","e","n","t">>
Sym_Read        == <<"R","e","a","d">>
Sym_Write       == <<"W","r","i","t","e">>
Sym_Comparison  == <<"C","o","m","p","a","r","i","s","o","n">>
Sym_Relation    == <<"R","e","l","a","t","i","o","n">>
Sym_Expression  == <<"E","x","p","r","e","s","s","i","o","n">>
Sym_Id          == <<"I","d">>
Sym_id_lower    == <<"i","d">>
Sym_Exp         == <<"E","x","p">>

\* the dict reserved, as the set of its values
ply_reserved ==
    {Token_DO, Token_ELSE, Token_END, Token_IF, Token_THEN, Token_WHILE,
     Token_READ, Token_WRITE}

\* the list tokens
ply_tokens ==
    {Token_SEM, Token_BEC, Token_LESS, Token_EQ, Token_GRTR, Token_LEQ,
     Token_NEQ, Token_GEQ, Token_ADD, Token_SUB, Token_MUL, Token_DIV,
     Token_LPAR, Token_RPAR, Token_NUM, Token_ID} \cup ply_reserved

\* t_NUM = r'd+'
t_NUM == OneOrMore({"d"})

\* a production of the grammar
Production(lhs, rhs) == [lhs |-> lhs, rhs |-> rhs]

\* the productions of the docstrings of p_program .. p_id, in their order
ply_productions == <<
    Production(Sym_Program, <<Sym_Statements>>),
    Production(Sym_Statements, <<Sym_Statement>>),
    Production(Sym_Statements, <<Sym_Statements, Token_SEM, Sym_Statement>>),
    Production(Sym_Statement, <<Sym_If>>),
    Production(Sym_Statement, <<Sym_While>>),
    Production(Sym_Statement, <<Sym_Assignment>>),
    Production(Sym_If, <<Token_IF, Sym_Comparison, Token_THEN, Sym_Statements, Token_END>>),
    Production(Sym_While, <<Token_WHILE, Sym_Comparison, Token_DO, Sym_Statements, Token_END>>),
    Production(Sym_Read, <<Token_READ, Sym_id_lower>>),
    Production(Sym_Write, <<Token_WRITE, Sym_Exp>>),
    Production(Sym_Assignment, <<Sym_Id, Token_BEC, Sym_Expression>>),
    Production(Sym_Comparison, <<Sym_Expression, Sym_Relation, Sym_Expression>>),
    Production(Sym_Relation, <<Token_EQ>>),
    Production(Sym_Relation, <<Token_NEQ>>),
    Production(Sym_Relation, <<Token_LESS>>),
    Production(Sym_Relation, <<Token_LEQ>>),
    Production(Sym_Relation, <<Token_GRTR>>),
    Production(Sym_Relation, <<Token_GEQ>>),
    Production(Sym_Expression, <<Sym_Expression, Token_ADD, Sym_Expression>>),
    Production(Sym_Expression, <<Sym_Expression, Token_SUB, Sym_Expression>>),
    Production(Sym_Expression, <<Sym_Expression, Token_MUL, Sym_Expression>>),
    Production(Sym_Expression, <<Sym_Expression, Token_DIV, Sym_Expression>>),
    Production(Sym_Expression, <<Token_LPAR, Sym_Expression, Token_RPAR>>),
    Production(Sym_Expression, <<Token_NUM>>),
    Production(Sym_Expression, <<Sym_Id>>),
    Production(Sym_Id, <<Token_ID>>) >>

\* the elements of the sequence s
Range(s) == {s[k] : k \in DOMAIN s}

\* the symbols that have a production
ply_nonterminals == {p.lhs : p \in Range(ply_productions)}

\* the symbols used on right-hand sides that are neither a token nor have
\* a production
undefined_symbols ==
    (UNION {Range(p.rhs) : p \in Range(ply_productions)})
        \ (ply_tokens \cup ply_nonterminals)

\* parser = yacc.yacc(): PLY refuses a grammar with undefined symbols
yacc_yacc == IF undefined_symbols # {} THEN "YaccError" ELSE "parser"

\* the symbols on the right-hand sides of the productions of the symbols S
Derived(S) ==
    UNION {Range(p.rhs) : p \in {q \in Range(ply_productions) : q.lhs \in S}}

RECURSIVE reachable_from(_)
\* the symbols that derivations from the symbols S can contain
reachable_from(S) ==
    IF Derived(S) \subseteq S THEN S ELSE reachable_from(S \cup Derived(S))

\* the symbols that a derivation from the start symbol can contain
ply_reachable == reachable_from({ply_productions[1].lhs})

\* the token (kind, lexeme) of parser.py can be part of an input that
\* ply_parser.py accepts: the kind occurs in a derivation from Program,
\* and a number is what t_NUM matches
ply_token_fits(token) ==
    /\ token[1] \in ply_reachable
    /\ token[1] = Token_NUM => re_match(t_NUM, token[2], 0) = Len(token[2])

\* C16: ply_parser.py is equivalent to parser.py: on every input both
\* accept or both reject, and on acceptance both print the same rendering
\* of the same tree, numbers, if statements with an else branch and read
\* and write statements included.  Stated by what that requires of
\* ply_parser.py when parser.py has printed a tree: yacc.yacc() returns a
\* parser, every token of the input is a terminal that a derivation from
\* Program can contain, and every number is matched by t_NUM.
C16_PlyFrontEndEquivalent ==
    Printed =>
        /\ yacc_yacc = "parser"
        /\ \A k \in 1..(Len(tokens) - 1) : ply_token_fits(tokens[k])

\* ---------------------------------------------------------------------
\* The buffered lookahead token

\* the first index from i on that is the end of the input or holds no
\* white space
FirstNonSpace(i) ==
    CHOOSE p \in i..Len(input_string) :
        /\ p = Len(input_string) \/ ~isspace(input_string[p + 1])
        /\ \A j \in (i + 1)..p : isspace(input_string[j])

\* token is what a longest-match scan produces at index p, where no white
\* space is
LongestMatchIs(p, token) ==
    IF p = Len(input_string) THEN token = <<None, <<>>>>
    ELSE \E k \in 1..Len(token_regexp) :
            /\ Selected(k, p)
            /\ token = <<token_regexp[k][1],
                         SubSeq(input_string, p + 1, p + MatchLength(k, p))>>

\* the scanner has been constructed, and every call of consume so far has
\* returned
AfterSuccessfulConsumes == TokenScanned /\ last_consume.returned

\* a step that leaves the sequence of tokens scanned as it is, that is,
\* in which the parser calls at most lookahead
NoTokenStep == tokens' = tokens /\ outcome' # "lexical_error"

\* C17 as stated: the buffered lookahead token is the token that a
\* longest-match scan produces starting at the current cursor, the count
\* of consumed characters current_char_index, after the white space; and
\* lookahead() returns its kind and changes neither cursor nor buffer.
C17_LookaheadIsScanAtCursor ==
    AfterSuccessfulConsumes =>
        /\ LongestMatchIs(FirstNonSpace(current_char_index), current_token)
        /\ lookahead = current_token[1]

\* what the amended C17 says of a state
C17_State ==
    AfterSuccessfulConsumes =>
        /\ LongestMatchIs(FirstNonSpace(CursorBefore), current_token)
        /\ current_char_index =
              FirstNonSpace(CursorBefore) + Len(current_token[2])
        /\ lookahead = current_token[1]

\* C17 amended: the buffered lookahead token is the token that a
\* longest-match scan produces starting, after the white space, where the
\* token consumed before it ended (at 0 after construction); the cursor
\* current_char_index is already at the end of the buffered token;
\* lookahead() returns the kind of the buffered token, and a step of the
\* parser that only looks ahead changes neither cursor nor buffer.
C17_LookaheadIsScanBeforeCursor ==
    /\ []C17_State
    /\ [][NoTokenStep => UNCHANGED <<current_char_index, current_token>>]_vars

\* C17 witness: after three successful calls of consume and some white
\* space, a number is buffered and the cursor is at its end
C17_Witness ==
    /\ AfterSuccessfulConsumes
    /\ Len(tokens) >= 4
    /\ current_token[1] = Token_NUM
    /\ CursorBefore < TokenStart
    /\ current_char_index < Len(input_string)

\* ---------------------------------------------------------------------
\* Termination

MaxLiveLen == 24  \* characters of an input of the runs checked for termination

\* the programs and damaged programs of at most MaxLiveLen characters
InputsLive ==
    {s \in {Join(p) : p \in Damaged(StmtPrograms) \cup ExprPrograms} :
        Len(s) <= MaxLiveLen}

InitLive == Init /\ input_string \in InputsLive

\* the program keeps running until it has ended
SpecLive == InitLive /\ [][Next]_vars /\ WF_vars(Next)

\* the ways a run ends: the AST printed, a lexical error, a syntax error
\* (of consume or of the end-of-input check), or a fatal failure (an
\* exception that nothing catches)
Endings ==
    {"printed", "lexical_error", "syntax_error", "trailing_input",
     "TypeError", "AttributeError"}

\* the number of tokens produced so far, the end-of-input marker apart
RealTokens == Cardinality({k \in DOMAIN tokens : tokens[k][1] # None})

\* what C18 says of every state
C18_State ==
    /\ outcome \in Endings \cup {"running"}
    /\ current_char_index \in 0..Len(input_string)
    /\ RealTokens <= Len(input_string)

\* a step in which get_token returns a token
TokenStep == tokens' # tokens

\* a step in which a call of consume returns
ConsumeStep == pc = "parsing" /\ TokenStep

\* a step in which the loop of statements, expression or term goes round
LoopStep ==
    /\ pc = "parsing"
    /\ stack # <<>>
    /\ Top.proc \in {"statements", "expression", "term"}
    /\ Top.pc # "start"
    /\ Len(stack') > Len(stack)

\* what C18 says of every step, but for the advance of the cursor
C18_Step ==
    /\ outcome = "running"
    /\ current_char_index' >= current_char_index
    /\ LoopStep => Len(tokens') = Len(tokens) + 1

\* C18 as stated: every run terminates, as AST printed, lexical error,
\* syntax error or fatal failure; the cursor never decreases and stays
\* within 0..len(input); every successful consume of a real token advances
\* the cursor by at least one character; every iteration of the loops of
\* statements, expression and term consumes at least one token; the
\* number of tokens produced is at most the length of the input.
C18_ConsumeAdvancesCursor ==
    /\ <>(outcome \in Endings)
    /\ []C18_State
    /\ [][C18_Step]_vars
    /\ [][(ConsumeStep /\ current_token[1] # None)
             => current_char_index' > current_char_index]_vars

\* C18 amended: as stated, but it is every token other than the
\* end-of-input marker that get_token returns that advances the cursor by
\* at least one character; a successful consume moves the cursor over the
\* token it scans next, which is no character at all when the last token
\* of the input is consumed.
C18_TokenAdvancesCursor ==
    /\ <>(outcome \in Endings)
    /\ []C18_State
    /\ [][C18_Step]_vars
    /\ [][(TokenStep /\ current_token'[1] # None)
             => current_char_index' > current_char_index]_vars

\* C18 witness: a run has ended with the AST printed after seven or more
\* tokens, and its last consume left the cursor where it was
C18_Witness ==
    /\ Printed
    /\ RealTokens >= 7
    /\ last_consume.returned
    /\ last_consume.index = current_char_index

====
